---- MODULE Spec2Model ----
(***************************************************************************)
(* Score persistence and quiz scoring of the Multi-LLM quiz application:   *)
(* app.py (main page), pages/1_level_1_Quiz.py (open-ended level) and      *)
(* pages/5_Level_5_MultiSelect.py (choice-based level).                    *)
(*                                                                         *)
(* Python values are tagged records, one field naming the type:            *)
(*   [dict |-> f]  [list |-> s]  [str |-> t]  [int |-> n]  [bool |-> b]    *)
(*   [none |-> TRUE]                                                       *)
(* JSON documents are tagged the same way with JSON's own type names:      *)
(*   [object |-> f]  [array |-> s]  [string |-> t]  [number |-> n]         *)
(* A file on disk is [absent |-> TRUE] or [text |-> doc], where doc is a   *)
(* JSON document or [garbage |-> TRUE] (text that is not JSON, such as an  *)
(* empty or truncated file).                                               *)
(***************************************************************************)
EXTENDS Integers, Sequences, FiniteSets, TLC

VARIABLES scoreFile, quizFile, session_state, page, run, proc, budget

vars == <<scoreFile, quizFile, session_state, page, run, proc, budget>>

(***************************************************************************)
(* Python values                                                           *)
(***************************************************************************)
PyDict(f) == [dict |-> f]
PyList(s) == [list |-> s]
PyStr(t) == [str |-> t]
PyInt(n) == [int |-> n]
PyBool(b) == [bool |-> b]
PyNone == [none |-> TRUE]
EmptyDict == [dict |-> <<>>]

IsDict(v) == "dict" \in DOMAIN v
IsList(v) == "list" \in DOMAIN v
IsStr(v) == "str" \in DOMAIN v
IsInt(v) == "int" \in DOMAIN v
IsNone(v) == "none" \in DOMAIN v

Range(s) == {s[i] : i \in DOMAIN s}

\* Python truth value: `not x` is ~Truthy(x).
Truthy(v) ==
    IF IsDict(v) THEN DOMAIN v.dict # {}
    ELSE IF IsList(v) THEN Len(v.list) > 0
    ELSE IF IsStr(v) THEN v.str # ""
    ELSE IF IsInt(v) THEN v.int # 0
    ELSE IF "bool" \in DOMAIN v THEN v.bool
    ELSE FALSE

Keys(d) == DOMAIN d.dict
\* d.get(k, default)
DictGet(d, k, default) == IF k \in DOMAIN d.dict THEN d.dict[k] ELSE default
\* d[k] = v
DictSet(d, k, v) ==
    [dict |-> [x \in (DOMAIN d.dict) \cup {k} |-> IF x = k THEN v ELSE d.dict[x]]]
\* del d[k]
DictDel(d, k) == [dict |-> [x \in (DOMAIN d.dict) \ {k} |-> d.dict[x]]]

(***************************************************************************)
(* json.dump / json.load                                                   *)
(***************************************************************************)
Garbage == [garbage |-> TRUE]
AbsentFile == [absent |-> TRUE]
TextFile(doc) == [text |-> doc]

RECURSIVE json_dumps(_)
json_dumps(v) ==
    IF IsDict(v) THEN [object |-> [k \in DOMAIN v.dict |-> json_dumps(v.dict[k])]]
    ELSE IF IsList(v) THEN [array |-> [i \in DOMAIN v.list |-> json_dumps(v.list[i])]]
    ELSE IF IsStr(v) THEN [string |-> v.str]
    ELSE IF IsInt(v) THEN [number |-> v.int]
    ELSE IF "bool" \in DOMAIN v THEN [boolean |-> v.bool]
    ELSE [null |-> TRUE]

RECURSIVE json_parse(_)
json_parse(doc) ==
    IF "object" \in DOMAIN doc
        THEN [dict |-> [k \in DOMAIN doc.object |-> json_parse(doc.object[k])]]
    ELSE IF "array" \in DOMAIN doc
        THEN [list |-> [i \in DOMAIN doc.array |-> json_parse(doc.array[i])]]
    ELSE IF "string" \in DOMAIN doc THEN [str |-> doc.string]
    ELSE IF "number" \in DOMAIN doc THEN [int |-> doc.number]
    ELSE IF "boolean" \in DOMAIN doc THEN [bool |-> doc.boolean]
    ELSE PyNone

\* json.load(f): the parsed value, or JSONDecodeError.
json_load(doc) ==
    IF "garbage" \in DOMAIN doc THEN [raised |-> "JSONDecodeError"]
    ELSE [ok |-> json_parse(doc)]

Raised(r) == "raised" \in DOMAIN r

(***************************************************************************)
(* Scoring and storage functions (identical in the three files)            *)
(***************************************************************************)
LEVEL1 == "Level 1: Fundamentals"
LEVEL5 == "Level 5: Multi-Select"

\* load_scores(): {} for a missing file and for a JSONDecodeError, else
\* whatever json.load returns.
load_scores(file) ==
    IF "absent" \in DOMAIN file THEN EmptyDict
    ELSE LET r == json_load(file.text)
         IN  IF Raised(r) THEN EmptyDict ELSE r.ok

\* A record built without the answers it was given.
ScoreRecord_NoAnswers(score, now, answer_data) ==
    PyDict([k \in {"score_value", "date", "answers"} |->
              IF k = "score_value" THEN PyInt(score)
              ELSE IF k = "date" THEN PyStr(now)
              ELSE EmptyDict])

\* The record save_score builds.
ScoreRecord(score, now, answer_data) ==
    PyDict([k \in {"score_value", "date", "answers"} |->
              IF k = "score_value" THEN PyInt(score)
              ELSE IF k = "date" THEN PyStr(now)
              ELSE answer_data])

\* A merge that starts the user's entry afresh on every save.
save_merge_FreshUser(all_scores, username, level, score, now, answer_data) ==
    IF ~IsDict(all_scores) THEN [raised |-> "TypeError"]
    ELSE [ok |-> DictSet(all_scores, username,
                   DictSet(EmptyDict, level,
                     PyDict([k \in {"score_value", "date", "answers"} |->
                               IF k = "score_value" THEN PyInt(score)
                               ELSE IF k = "date" THEN PyStr(now)
                               ELSE answer_data])))]

\* A merge that keeps the answers of the record it replaces, the new ones
\* laid over them.
save_merge_KeepOld(all_scores, username, level, score, now, answer_data) ==
    IF ~IsDict(all_scores) THEN [raised |-> "TypeError"]
    ELSE LET a1 == IF username \notin Keys(all_scores)
                      THEN DictSet(all_scores, username, EmptyDict)
                      ELSE all_scores
         IN  IF ~IsDict(a1.dict[username]) THEN [raised |-> "TypeError"]
             ELSE LET old == DictGet(DictGet(a1.dict[username], level, EmptyDict),
                                     "answers", EmptyDict)
                      kept == IF IsDict(old) /\ IsDict(answer_data)
                                 THEN PyDict([q \in Keys(old) \cup Keys(answer_data) |->
                                                IF q \in Keys(answer_data)
                                                   THEN answer_data.dict[q]
                                                   ELSE old.dict[q]])
                                 ELSE answer_data
                  IN  [ok |-> DictSet(a1, username,
                                DictSet(a1.dict[username], level,
                                  PyDict([k \in {"score_value", "date", "answers"} |->
                                            IF k = "score_value" THEN PyInt(score)
                                            ELSE IF k = "date" THEN PyStr(now)
                                            ELSE kept])))]

\* save_score, from the loaded all_scores to the value it dumps: the two
\* item assignments raise TypeError when all_scores, or all_scores[username],
\* is not a dict.
save_merge(all_scores, username, level, score, now, answer_data) ==
    IF ~IsDict(all_scores) THEN [raised |-> "TypeError"]
    ELSE LET a1 == IF username \notin Keys(all_scores)
                      THEN DictSet(all_scores, username, EmptyDict)
                      ELSE all_scores
         IN  IF ~IsDict(a1.dict[username]) THEN [raised |-> "TypeError"]
             ELSE [ok |-> DictSet(a1, username,
                              DictSet(a1.dict[username], level,
                                      ScoreRecord(score, now, answer_data)))]

\* open(SCORE_FILE, 'w') truncates the file; json.dump then writes the text.
open_w(file) == TextFile(Garbage)
json_dump(all_scores, file) == TextFile(json_dumps(all_scores))

\* save_score run to completion with nothing in between: the file it leaves,
\* or the exception it raises (before the file is opened).
save_score(file, username, level, score, now, answer_data) ==
    LET m == save_merge(load_scores(file), username, level, score, now, answer_data)
    IN  IF Raised(m) THEN m ELSE [ok |-> json_dump(m.ok, open_w(file))]

\* load_quiz_data(): as load_scores, with an error message shown.
load_quiz_data(file) ==
    IF "absent" \in DOMAIN file THEN EmptyDict
    ELSE LET r == json_load(file.text)
         IN  IF Raised(r) THEN EmptyDict ELSE r.ok

(***************************************************************************)
(* Session state and script runs                                           *)
(*                                                                         *)
(* session_state is st.session_state, a Python dict.  Every user           *)
(* interaction runs the current page's script from its first line with the *)
(* widgets' values; a run ends complete, stopped (st.stop()) or with an    *)
(* uncaught exception.  `run` records how the last run ended: which page   *)
(* it was, whether the question widgets and the finalize button were       *)
(* rendered, whether the review block was shown and the score it showed,   *)
(* and the save_score call that returned in it, if one did.                *)
(***************************************************************************)
Texts == {"", "x"}
Users == {"alice", "bob"}
HelpResponses == {"hint", "LLM API Error"}

ANSWERS == "multi_level_answers"
HELP == "multi_level_help_history"
ReviewedKey(level) == IF level = LEVEL1 THEN "reviewed_Level 1: Fundamentals"
                      ELSE "reviewed_Level 5: Multi-Select"

NoClick == [btn |-> "none"]
Click(b) == [btn |-> b]
HelpClick(q) == [btn |-> "help", q_key |-> q]

Out(ss, file, status, questions, review, score) ==
    [ss |-> ss, file |-> file, status |-> status, questions |-> questions,
     review |-> review, score |-> score, saved |-> PyNone]

\* The initialisation of multi_level_answers from FULL_QUIZ_DATA.
InitialAnswers(FULL) ==
    PyDict([level \in Keys(FULL) |->
              PyDict([q_key \in Keys(FULL.dict[level]) |->
                        IF q_key = "Q1_Multi" THEN PyList(<<>>) ELSE PyStr("")])])

InitialHelpHistory(FULL) == PyDict([level \in Keys(FULL) |-> EmptyDict])

\* "SESSION STATE INITIALIZATION" of both quiz pages.
InitSessionState(ss, FULL) ==
    LET ss1 == IF ANSWERS \notin Keys(ss)
                  THEN DictSet(ss, ANSWERS, InitialAnswers(FULL)) ELSE ss
    IN  IF HELP \notin Keys(ss1)
           THEN DictSet(ss1, HELP, InitialHelpHistory(FULL)) ELSE ss1

\* st.session_state.multi_level_answers[level][q_key] = value
SetAnswer(ss, level, q_key, value) ==
    DictSet(ss, ANSWERS,
            DictSet(ss.dict[ANSWERS], level,
                    DictSet(ss.dict[ANSWERS].dict[level], q_key, value)))

(***************************************************************************)
(* pages/1_level_1_Quiz.py                                                 *)
(***************************************************************************)
\* "QUIZ DATA SETUP": the level's questions, or the way the run ends there.
\* A setup that goes on with an empty level when the file lacks the level.
L1QuizData_NoLevelCheck(qfile) ==
    LET FULL_QUIZ_DATA == load_quiz_data(qfile)
    IN  IF ~Truthy(FULL_QUIZ_DATA) THEN [halt |-> "stopped"]
        ELSE IF ~IsDict(FULL_QUIZ_DATA) THEN [halt |-> "exception"]
        ELSE [full |-> FULL_QUIZ_DATA,
              data |-> DictGet(FULL_QUIZ_DATA, LEVEL1, EmptyDict)]

L1QuizData(qfile) ==
    LET FULL_QUIZ_DATA == load_quiz_data(qfile)
    IN  IF ~Truthy(FULL_QUIZ_DATA) THEN [halt |-> "stopped"]
        ELSE IF ~IsDict(FULL_QUIZ_DATA) THEN [halt |-> "exception"]
        ELSE LET QUIZ_DATA == DictGet(FULL_QUIZ_DATA, LEVEL1, EmptyDict)
             IN  IF ~Truthy(QUIZ_DATA) THEN [halt |-> "stopped"]
                 ELSE [full |-> FULL_QUIZ_DATA, data |-> QUIZ_DATA]

\* "Ensure this level's state exists".
L1EnsureLevel(ss, QUIZ_DATA) ==
    LET ss1 == IF LEVEL1 \notin Keys(ss.dict[ANSWERS])
                  THEN DictSet(ss, ANSWERS,
                         DictSet(ss.dict[ANSWERS], LEVEL1,
                                 PyDict([q \in Keys(QUIZ_DATA) |-> PyStr("")])))
                  ELSE ss
    IN  IF LEVEL1 \notin Keys(ss1.dict[HELP])
           THEN DictSet(ss1, HELP, DictSet(ss1.dict[HELP], LEVEL1, EmptyDict))
           ELSE ss1

\* The question loop's assignments: every text area's value goes to the
\* session state.
RECURSIVE L1StoreAnswers(_, _, _)
L1StoreAnswers(ss, widget, todo) ==
    IF todo = {} THEN ss
    ELSE LET q_key == CHOOSE q \in todo : TRUE
         IN  L1StoreAnswers(SetAnswer(ss, LEVEL1, q_key, PyStr(widget[q_key])),
                            widget, todo \ {q_key})

\* final_score = len(QUIZ_DATA)
L1FinalScore(QUIZ_DATA) == Cardinality(Keys(QUIZ_DATA))

\* A finalize that counts the questions that were answered.
L1FinalizeArgs_CountAnswered(ss, username, QUIZ_DATA) ==
    [username |-> username, level |-> LEVEL1,
     score |-> Cardinality({q \in Keys(QUIZ_DATA) :
                              DictGet(ss.dict[ANSWERS].dict[LEVEL1], q, PyStr("")) # PyStr("")}),
     answer_data |-> ss.dict[ANSWERS].dict[LEVEL1]]

\* What the finalize_score_btn handler passes to save_score.
L1FinalizeArgs(ss, username, QUIZ_DATA) ==
    [username |-> username, level |-> LEVEL1, score |-> L1FinalScore(QUIZ_DATA),
     answer_data |-> ss.dict[ANSWERS].dict[LEVEL1]]

\* One run of the Level 1 script.  widget: the text areas' values by question
\* (used for the questions the catalog has); click: the button pressed, NoClick,
\* Click("finalize") or HelpClick(q_key); st.rerun() runs the script again with no button pressed.
RECURSIVE L1Script(_, _, _, _, _, _, _)
L1Script(ss, file, qfile, widget, click, now, help_response) ==
    LET cat == L1QuizData(qfile)
    IN  IF "halt" \in DOMAIN cat
           THEN Out(ss, file, cat.halt, FALSE, FALSE, PyNone)
        ELSE IF \E level \in Keys(cat.full) : ~IsDict(cat.full.dict[level])
           THEN Out(ss, file, "exception", FALSE, FALSE, PyNone)
        ELSE
        LET QUIZ_DATA == cat.data
            ss1 == InitSessionState(ss, cat.full)
            username == DictGet(ss1, "username", PyNone)
        IN  IF ~Truthy(username)
               THEN Out(ss1, file, "stopped", FALSE, FALSE, PyNone)
            ELSE
            LET ss2 == L1EnsureLevel(ss1, QUIZ_DATA)
                ss3 == L1StoreAnswers(ss2, widget, Keys(QUIZ_DATA))
                SCORE_KEY == ReviewedKey(LEVEL1)
            IN  IF click.btn = "finalize"
                   THEN LET ss4 == DictSet(ss3, SCORE_KEY, PyBool(TRUE))
                            args == L1FinalizeArgs(ss4, username.str, QUIZ_DATA)
                            saved == save_score(file, args.username, args.level,
                                                args.score, now, args.answer_data)
                        IN  IF Raised(saved)
                               THEN Out(ss4, file, "exception", TRUE, FALSE, PyNone)
                               ELSE [L1Script(ss4, saved.ok, qfile, widget, NoClick,
                                              now, help_response)
                                        EXCEPT !.saved = [args |-> args, now |-> now]]
                ELSE IF click.btn = "help"
                   THEN L1Script(
                          DictSet(ss3, HELP,
                            DictSet(ss3.dict[HELP], LEVEL1,
                              DictSet(ss3.dict[HELP].dict[LEVEL1], click.q_key,
                                      PyStr(help_response)))),
                          file, qfile, widget, NoClick, now, help_response)
                ELSE Out(ss3, file, "complete", TRUE,
                         Truthy(DictGet(ss3, SCORE_KEY, PyBool(FALSE))), PyNone)

\* The text areas' values when nothing was typed since the last run:
\* value=current_answers.get(q_key, "").
L1Widget(ss, qfile) ==
    LET cat == L1QuizData(qfile)
        current_answers ==
            IF ANSWERS \in Keys(ss) /\ LEVEL1 \in Keys(ss.dict[ANSWERS])
               THEN ss.dict[ANSWERS].dict[LEVEL1] ELSE EmptyDict
    IN  IF "halt" \in DOMAIN cat THEN <<>>
        ELSE [q \in Keys(cat.data) |-> DictGet(current_answers, q, PyStr("")).str]

(***************************************************************************)
(* pages/5_Level_5_MultiSelect.py                                          *)
(***************************************************************************)
\* "QUIZ DATA SETUP": the two questions, or the way the run ends there.
L5QuizData(qfile) ==
    LET FULL_QUIZ_DATA == load_quiz_data(qfile)
    IN  IF ~Truthy(FULL_QUIZ_DATA) THEN [halt |-> "stopped"]
        ELSE IF ~IsDict(FULL_QUIZ_DATA) THEN [halt |-> "exception"]
        ELSE LET LEVEL_5_DATA == DictGet(FULL_QUIZ_DATA, LEVEL5, EmptyDict)
             IN  IF ~Truthy(LEVEL_5_DATA) THEN [halt |-> "stopped"]
                 ELSE IF ~IsDict(LEVEL_5_DATA) THEN [halt |-> "exception"]
                 ELSE
                 LET MULTI_SELECT_QUESTION == DictGet(LEVEL_5_DATA, "Q1_Multi", EmptyDict)
                     SINGLE_SELECT_QUESTION == DictGet(LEVEL_5_DATA, "Q2_Single", EmptyDict)
                 IN  IF ~Truthy(MULTI_SELECT_QUESTION) \/ ~Truthy(SINGLE_SELECT_QUESTION)
                        THEN [halt |-> "stopped"]
                        ELSE [full |-> FULL_QUIZ_DATA, q1 |-> MULTI_SELECT_QUESTION,
                              q2 |-> SINGLE_SELECT_QUESTION]

\* The radio's labels, f"{k}. {v}", and the map from a label back to its key.
RadioLabel(k, v) == k \o ". " \o v
q2_radio_options(q2_data) ==
    {RadioLabel(k, q2_data.dict["options"].dict[k].str) : k \in Keys(q2_data.dict["options"])}
\* q2_radio_key_map.get(label, "")
q2_radio_key(q2_data, label) ==
    LET options == q2_data.dict["options"]
        hits == {k \in Keys(options) : PyStr(RadioLabel(k, options.dict[k].str)) = label}
    IN  IF IsStr(label) /\ hits # {} THEN CHOOSE k \in hits : TRUE ELSE ""

\* A Q1 score that takes a mark off for every selected key that is not correct.
ScoreQ1_Penalised(user_selected_keys_q1, correct_answers) ==
    LET user_set_q1 == Range(user_selected_keys_q1)
        correct_set_q1 == Range(correct_answers)
        right == Cardinality(user_set_q1 \cap correct_set_q1)
        wrong == Cardinality(user_set_q1 \ correct_set_q1)
    IN  IF right > wrong THEN right - wrong ELSE 0

\* score_q1 = len(set(user_selected_keys_q1).intersection(set(correct_answers)))
ScoreQ1(user_selected_keys_q1, correct_answers) ==
    LET user_set_q1 == Range(user_selected_keys_q1)
        correct_set_q1 == Range(correct_answers)
    IN  Cardinality(user_set_q1 \cap correct_set_q1)

\* A Q2 score that gives the mark for any selection.
ScoreQ2_AnySelection(user_selected_key_q2, correct_answer) ==
    IF user_selected_key_q2 # PyStr("") THEN 1 ELSE 0

\* score_q2 = 1 if user_selected_key_q2 == q2_data['correct_answer'] else 0
ScoreQ2(user_selected_key_q2, correct_answer) ==
    IF user_selected_key_q2 = correct_answer THEN 1 ELSE 0

\* What the check_multiselect handler passes to save_score.
L5CheckArgs(username, q1_data, q2_data, user_selected_keys_q1, user_selected_key_q2) ==
    LET score_q1 == ScoreQ1(user_selected_keys_q1, q1_data.dict["correct_answers"].list)
        score_q2 == ScoreQ2(PyStr(user_selected_key_q2), q2_data.dict["correct_answer"])
        final_score == score_q1 + score_q2
    IN  [username |-> username, level |-> LEVEL5, score |-> final_score,
         score_q1 |-> score_q1, score_q2 |-> score_q2,
         answer_data |-> PyDict([k \in {"Q1_Multi", "Q2_Single"} |->
                                   IF k = "Q1_Multi" THEN PyList(user_selected_keys_q1)
                                   ELSE PyStr(user_selected_key_q2)])]

\* The review block: the record it reloads and the score it shows; the run
\* ends with an exception when what load_scores returns has no .get.
L5Review(ss, file, username) ==
    LET all_scores == load_scores(file)
    IN  IF ~IsDict(all_scores) THEN Out(ss, file, "exception", TRUE, FALSE, PyNone)
        ELSE
        LET of_user == DictGet(all_scores, username, EmptyDict)
        IN  IF ~IsDict(of_user) THEN Out(ss, file, "exception", TRUE, FALSE, PyNone)
            ELSE
            LET user_scores == DictGet(of_user, LEVEL5, EmptyDict)
            IN  IF ~IsDict(user_scores)
                   THEN Out(ss, file, "exception", TRUE, FALSE, PyNone)
                   ELSE Out(ss, file, "complete", TRUE, TRUE,
                            DictGet(user_scores, "score_value", PyInt(0)))

\* One run of the Level 5 script.  selected: the multiselect's value, a list
\* of option keys; label: the radio's value, a label or None; click: NoClick
\* or Click("check").
RECURSIVE L5Script(_, _, _, _, _, _, _)
L5Script(ss, file, qfile, selected, label, click, now) ==
    LET cat == L5QuizData(qfile)
    IN  IF "halt" \in DOMAIN cat
           THEN Out(ss, file, cat.halt, FALSE, FALSE, PyNone)
        ELSE IF \E level \in Keys(cat.full) : ~IsDict(cat.full.dict[level])
           THEN Out(ss, file, "exception", FALSE, FALSE, PyNone)
        ELSE
        LET q1_data == cat.q1
            q2_data == cat.q2
            ss1 == InitSessionState(ss, cat.full)
            username == DictGet(ss1, "username", PyNone)
        IN  IF ~Truthy(username)
               THEN Out(ss1, file, "stopped", FALSE, FALSE, PyNone)
            ELSE IF LEVEL5 \notin Keys(ss1.dict[ANSWERS])
               THEN Out(ss1, file, "exception", FALSE, FALSE, PyNone)
            ELSE
            LET user_selected_keys_q1 == selected
                ss2 == SetAnswer(ss1, LEVEL5, "Q1_Multi", PyList(user_selected_keys_q1))
                user_selected_key_q2 == q2_radio_key(q2_data, label)
                ss3 == SetAnswer(ss2, LEVEL5, "Q2_Single", PyStr(user_selected_key_q2))
                SCORE_SAVED_KEY == ReviewedKey(LEVEL5)
                ss4 == IF SCORE_SAVED_KEY \notin Keys(ss3)
                          THEN DictSet(ss3, SCORE_SAVED_KEY, PyBool(FALSE)) ELSE ss3
            IN  IF click.btn = "check"
                   THEN LET args == L5CheckArgs(username.str, q1_data, q2_data,
                                                user_selected_keys_q1, user_selected_key_q2)
                            saved == save_score(file, args.username, args.level,
                                                args.score, now, args.answer_data)
                        IN  IF Raised(saved)
                               THEN Out(ss4, file, "exception", TRUE, FALSE, PyNone)
                               ELSE [L5Script(DictSet(ss4, SCORE_SAVED_KEY, PyBool(TRUE)),
                                              saved.ok, qfile, selected, label, NoClick, now)
                                        EXCEPT !.saved = [args |-> args, now |-> now]]
                ELSE IF Truthy(DictGet(ss4, SCORE_SAVED_KEY, PyBool(FALSE)))
                   THEN L5Review(ss4, file, username.str)
                ELSE Out(ss4, file, "complete", TRUE, FALSE, PyNone)

\* The widgets' values when nothing was changed since the last run: the
\* multiselect's default, and the radio's index found from the saved key.
L5Selected(ss) ==
    LET level_answers ==
            IF ANSWERS \in Keys(ss) THEN DictGet(ss.dict[ANSWERS], LEVEL5, EmptyDict)
            ELSE EmptyDict
    IN  DictGet(level_answers, "Q1_Multi", PyList(<<>>)).list

L5Label(ss, qfile) ==
    LET cat == L5QuizData(qfile)
        level_answers ==
            IF ANSWERS \in Keys(ss) THEN DictGet(ss.dict[ANSWERS], LEVEL5, EmptyDict)
            ELSE EmptyDict
        previous_answer_key_q2 == DictGet(level_answers, "Q2_Single", PyStr("")).str
    IN  IF "halt" \in DOMAIN cat THEN PyNone
        ELSE IF previous_answer_key_q2 \in Keys(cat.q2.dict["options"])
           THEN PyStr(RadioLabel(previous_answer_key_q2,
                        cat.q2.dict["options"].dict[previous_answer_key_q2].str))
           ELSE PyNone

(***************************************************************************)
(* app.py                                                                  *)
(***************************************************************************)
OPENAI == "OpenAI (ChatGPT)"
GEMINI == "Google (Gemini)"
GROK == "xAI (Grok)"
Providers == {OPENAI, GEMINI, GROK}
\* st.secrets of the deployment: a key for two of the providers.
Secrets == [provider \in Providers |-> IF provider = GEMINI THEN "" ELSE "sk-" \o provider]
\* get_secret_key(provider)
get_secret_key(provider) == IF provider \in DOMAIN Secrets THEN Secrets[provider] ELSE ""
QUIZ_LEVELS == {LEVEL1, LEVEL5}

\* The strings that report a failure start with a cross mark, written [x].
CrossMark == "[x]"
KeyMissingError == "[x] ERROR: The API Key is missing"
LlmApiError == "[x] LLM API Error"
StartsWithCross(t) == Len(t) >= Len(CrossMark) /\ SubSeq(t, 1, Len(CrossMark)) = CrossMark

Message(role, content) ==
    PyDict([k \in {"role", "content"} |-> IF k = "role" THEN PyStr(role) ELSE PyStr(content)])
Greeting == Message("assistant", "Hello!")

\* get_llm_response.  outcome is what the provider does with the call:
\* outcome.fails (the call raises inside the try), outcome.chunks and
\* outcome.abort (the stream's chunks, and whether the stream raises after
\* them), outcome.text (Gemini's response.text).
get_llm_response(model_provider, api_key, outcome) ==
    IF ~Truthy(api_key) THEN PyStr(KeyMissingError)
    ELSE IF outcome.fails THEN PyStr(LlmApiError)
    ELSE IF model_provider \in {OPENAI, GROK}
       THEN [stream |-> outcome.chunks, abort |-> outcome.abort]
    ELSE PyStr(outcome.text)

\* for chunk in response: full_response += chunk.choices[0].delta.content,
\* for the chunks that carry content.
RECURSIVE Accumulate(_, _)
Accumulate(full_response, chunks) ==
    IF chunks = <<>> THEN full_response
    ELSE Accumulate(IF Truthy(Head(chunks)) THEN full_response \o Head(chunks).str
                    ELSE full_response,
                    Tail(chunks))

\* The chat turn ("MAIN CHAT INTERFACE"): the session state it leaves and
\* whether it ran to its end.
ChatTurn(ss, selected_model, prompt, outcome) ==
    LET ss1 == DictSet(ss, "messages",
                   PyList(Append(ss.dict["messages"].list, Message("user", prompt))))
        response == get_llm_response(selected_model,
                                     DictGet(ss1, "current_api_key", PyNone), outcome)
        Reply(full_response) ==
            [ss |-> DictSet(ss1, "messages",
                      PyList(Append(ss1.dict["messages"].list,
                                    Message("assistant", full_response)))),
             status |-> "complete"]
    IN  IF IsStr(response) /\ StartsWithCross(response.str) THEN Reply(response.str)
        ELSE IF selected_model \in {OPENAI, GROK}
           THEN IF ~("stream" \in DOMAIN response) \/ response.abort
                   THEN [ss |-> ss1, status |-> "exception"]
                   ELSE Reply(Accumulate("", response.stream))
        ELSE Reply(response.str)

\* display_quiz_level for every level: whether the score display raises.
DisplayRaises(user_scores) ==
    \/ ~IsDict(user_scores)
    \/ \E level \in QUIZ_LEVELS \cap Keys(user_scores) :
          LET score_data == user_scores.dict[level]
          IN  Truthy(score_data) /\ ~(IsDict(score_data) /\ "score_value" \in Keys(score_data))

\* One run of the main script.  user_name: the text input's value;
\* selected_model: the selectbox's value; click: NoClick, Click("logout") or Click("clear_chat"); prompt: the
\* chat input's value, PyNone or a string.
RECURSIVE MainScript(_, _, _, _, _, _, _)
MainScript(ss, file, user_name, selected_model, click, prompt, outcome) ==
    LET ss1 == DictSet(ss, "username", PyStr(user_name))
    IN  IF user_name = "" THEN Out(ss1, file, "stopped", FALSE, FALSE, PyNone)
        ELSE IF click.btn = "logout"
           THEN MainScript(DictSet(DictDel(ss1, "username"), "messages", PyList(<<>>)),
                           file, "", OPENAI, NoClick, PyNone, outcome)
        ELSE
        LET all_scores == load_scores(file)
        IN  IF ~IsDict(all_scores) \/ DisplayRaises(DictGet(all_scores, user_name, EmptyDict))
               THEN Out(ss1, file, "exception", FALSE, FALSE, PyNone)
            ELSE
            LET api_key == get_secret_key(selected_model)
                ss2 == DictSet(DictSet(ss1, "current_api_provider", PyStr(selected_model)),
                               "current_api_key", PyStr(api_key))
            IN  IF click.btn = "clear_chat"
                   THEN MainScript(DictSet(ss2, "messages", PyList(<<>>)), file, user_name,
                                   selected_model, NoClick, PyNone, outcome)
                ELSE
                LET ss3 == IF "messages" \notin Keys(ss2)
                              THEN DictSet(ss2, "messages", PyList(<<Greeting>>)) ELSE ss2
                IN  IF IsNone(prompt) THEN Out(ss3, file, "complete", FALSE, FALSE, PyNone)
                    ELSE LET turn == ChatTurn(ss3, selected_model, prompt.str, outcome)
                         IN  Out(turn.ss, file, turn.status, FALSE, FALSE, PyNone)

(***************************************************************************)
(* The files the application finds on disk                                 *)
(***************************************************************************)
MaxQuestions == 2
NumOptions == 3
MaxDates == 2

AllQuestionKeys == <<"Q1", "Q2", "Q3", "Q4">>
AllOptionKeys == <<"A", "B", "C", "D", "E">>
AllDates == <<"2026-01-01 10:00:00", "2026-01-01 10:00:01", "2026-01-01 10:00:02",
              "2026-01-01 10:00:03">>
OldDate == "2025-12-31 09:00:00"
Dates == {AllDates[i] : i \in 1..MaxDates}

\* Lists without repetition over a set.
DistinctLists(S) ==
    UNION {{l \in [1..n -> S] : \A i, j \in 1..n : l[i] = l[j] => i = j}
              : n \in 0..Cardinality(S)}

OpenQuestion == PyDict([k \in {"question", "memo"} |-> PyStr(k)])
OptionsOf(n) == PyDict([k \in {AllOptionKeys[i] : i \in 1..n} |-> PyStr("statement " \o k)])
MultiQuestion(n, correct) ==
    PyDict([k \in {"question", "options", "correct_answers", "memo"} |->
              IF k = "options" THEN OptionsOf(n)
              ELSE IF k = "correct_answers" THEN PyList(correct)
              ELSE PyStr(k)])
SingleQuestion(n, correct) ==
    PyDict([k \in {"question", "options", "correct_answer", "memo"} |->
              IF k = "options" THEN OptionsOf(n)
              ELSE IF k = "correct_answer" THEN PyStr(correct)
              ELSE PyStr(k)])

Level1Data(n) == PyDict([q \in {AllQuestionKeys[i] : i \in 1..n} |-> OpenQuestion])
Level5Data(n, correct_answers, correct_answer) ==
    PyDict([q \in {"Q1_Multi", "Q2_Single"} |->
              IF q = "Q1_Multi" THEN MultiQuestion(n, correct_answers)
              ELSE SingleQuestion(n, correct_answer)])

Catalog(level1, level5) ==
    PyDict([level \in {LEVEL1, LEVEL5} |-> IF level = LEVEL1 THEN level1 ELSE level5])

\* Quiz data files that do not give a page its questions.
BrokenQuizFiles ==
    {AbsentFile, TextFile(Garbage), TextFile(json_dumps(EmptyDict)),
     TextFile(json_dumps(PyList(<<PyStr("Q1")>>))),
     TextFile(json_dumps(PyDict([l \in {LEVEL1} |-> Level1Data(1)]))),
     TextFile(json_dumps(PyDict([l \in {LEVEL5} |-> Level5Data(1, <<PyStr("A")>>, "A")]))),
     TextFile(json_dumps(Catalog(EmptyDict, EmptyDict))),
     TextFile(json_dumps(Catalog(Level1Data(1),
        DictDel(Level5Data(1, <<PyStr("A")>>, "A"), "Q1_Multi")))),
     TextFile(json_dumps(Catalog(Level1Data(1),
        DictDel(Level5Data(1, <<PyStr("A")>>, "A"), "Q2_Single"))))}

\* The smallest complete quiz data file.
SmallQuizFile == TextFile(json_dumps(Catalog(Level1Data(1), Level5Data(1, <<PyStr("A")>>, "A"))))

\* Complete quiz data files with up to MaxQuestions open-ended questions.
Level1QuizFiles ==
    {TextFile(json_dumps(Catalog(Level1Data(n), Level5Data(1, <<PyStr("A")>>, "A"))))
        : n \in 1..MaxQuestions}

\* Complete quiz data files with NumOptions options: every non-empty set of
\* them as Q1's correct answers, and one of them as Q2's correct answer.
Level5QuizFiles ==
    LET sets == {x \in DistinctLists(1..NumOptions) :
                    x # <<>> /\ \A i \in 1..(Len(x) - 1) : x[i] < x[i + 1]}
    IN  {TextFile(json_dumps(Catalog(Level1Data(1),
            Level5Data(NumOptions, [i \in DOMAIN l |-> PyStr(AllOptionKeys[l[i]])],
                       AllOptionKeys[NumOptions + 1 - l[1]])))) : l \in sets}

\* Score records written by an earlier session.
OldRecord1 == ScoreRecord(2, OldDate,
                PyDict([q \in {"Q1", "Q9"} |-> PyStr("old answer")]))
OldRecord5 == ScoreRecord(5, OldDate,
                PyDict([q \in {"Q1_Multi", "Q2_Single"} |->
                          IF q = "Q1_Multi" THEN PyList(<<PyStr("A")>>) ELSE PyStr("A")]))
UserScores(r1, r5) == PyDict([level \in {LEVEL1, LEVEL5} |-> IF level = LEVEL1 THEN r1 ELSE r5])

\* Score files the code itself can have written.
WrittenScoreFiles ==
    {TextFile(json_dumps(EmptyDict)),
     TextFile(json_dumps(PyDict([u \in {"bob"} |-> UserScores(OldRecord1, OldRecord5)]))),
     TextFile(json_dumps(PyDict([u \in {"alice"} |-> UserScores(OldRecord1, OldRecord5)]))),
     TextFile(json_dumps(PyDict([u \in {"alice", "carol"} |->
                                   PyDict([l \in {LEVEL1} |-> OldRecord1])])))}

\* Score files that are missing, not JSON, or JSON of another shape.
MalformedScoreFiles ==
    {AbsentFile, TextFile(Garbage),
     TextFile(json_dumps(PyList(<<PyInt(1)>>))),
     TextFile(json_dumps(PyDict([u \in {"alice", "bob"} |-> PyInt(7)])))}

ScoreFiles == WrittenScoreFiles \cup MalformedScoreFiles

\* A few of each, for the whole application.
FewQuizFiles ==
    {SmallQuizFile, AbsentFile, TextFile(Garbage),
     TextFile(json_dumps(PyDict([l \in {LEVEL5} |-> Level5Data(1, <<PyStr("A")>>, "A")]))),
     TextFile(json_dumps(Catalog(Level1Data(1),
        DictDel(Level5Data(1, <<PyStr("A")>>, "A"), "Q1_Multi")))),
     TextFile(json_dumps(Catalog(Level1Data(1),
        DictDel(Level5Data(1, <<PyStr("A")>>, "A"), "Q2_Single"))))}
FewScoreFiles ==
    {AbsentFile,
     TextFile(json_dumps(PyDict([u \in {"alice"} |-> UserScores(OldRecord1, OldRecord5)]))),
     TextFile(json_dumps(PyList(<<PyInt(1)>>))),
     TextFile(json_dumps(PyDict([u \in {"alice", "bob"} |-> PyInt(7)])))}

(***************************************************************************)
(* Actions: one per user interaction, each a whole script run              *)
(***************************************************************************)
MaxSteps == 6
MaxPageSteps == 4

NoRun == [page |-> "none", status |-> "none", questions |-> FALSE, review |-> FALSE,
          score |-> PyNone, saved |-> PyNone]

RunOf(out, p) ==
    [page |-> p, status |-> out.status, questions |-> out.questions,
     review |-> out.review, score |-> out.score, saved |-> out.saved]

\* The state a script run leaves.  A session is followed for a bounded number
\* of interactions (MaxSteps in the whole application, MaxPageSteps on one
\* page): budget counts the ones left.
Apply(out, p) ==
    /\ budget > 0
    /\ budget' = budget - 1
    /\ session_state' = out.ss
    /\ scoreFile' = out.file
    /\ page' = p
    /\ run' = RunOf(out, p)
    /\ UNCHANGED <<quizFile, proc>>

NoOutcome == [fails |-> FALSE, chunks |-> <<>>, abort |-> FALSE, text |-> ""]

\* The main page's widgets as the last run left them: the text input keeps
\* what was typed, the selectbox keeps its choice while it is rendered.
CurrentUserName ==
    IF page = "main" /\ run.page = "main" /\ IsStr(DictGet(session_state, "username", PyNone))
       THEN session_state.dict["username"].str ELSE ""
CurrentModel ==
    IF page = "main" /\ run.page = "main" /\ run.status = "complete"
       THEN DictGet(session_state, "current_api_provider", PyStr(OPENAI)).str ELSE OPENAI

\* A run of page p with its widgets as they stand and no button pressed (no
\* score is saved, so the time of the run does not matter).
PlainRun(p) ==
    IF p = "main"
       THEN MainScript(session_state, scoreFile, CurrentUserName, CurrentModel,
                       NoClick, PyNone, NoOutcome)
    ELSE IF p = "level1"
       THEN L1Script(session_state, scoreFile, quizFile, L1Widget(session_state, quizFile),
                     NoClick, AllDates[1], "")
    ELSE L5Script(session_state, scoreFile, quizFile, L5Selected(session_state),
                  L5Label(session_state, quizFile), NoClick, AllDates[1])

Pages == {"main", "level1", "level5"}

\* switch_page, or the sidebar's page navigation: the target page's script
\* runs with fresh widgets.
Navigate(p) ==
    /\ p # page
    /\ Apply(IF p = "main"
                THEN MainScript(session_state, scoreFile, "", OPENAI,
                                NoClick, PyNone, NoOutcome)
                ELSE PlainRun(p), p)

\* The current page's script runs again with nothing changed.
Rerender == Apply(PlainRun(page), page)

\* --- main page ---
MainRendered == page = "main" /\ run.page = "main"

EnterUsername(user_name) ==
    /\ MainRendered
    /\ Apply(MainScript(session_state, scoreFile, user_name, CurrentModel,
                        NoClick, PyNone, NoOutcome), "main")

SelectModel(selected_model) ==
    /\ MainRendered /\ run.status = "complete"
    /\ Apply(MainScript(session_state, scoreFile, CurrentUserName, selected_model,
                        NoClick, PyNone, NoOutcome), "main")

\* The logout button is rendered once a username is entered.
Logout ==
    /\ MainRendered /\ run.status \in {"complete", "exception"}
    /\ CurrentUserName # ""
    /\ Apply(MainScript(session_state, scoreFile, CurrentUserName, CurrentModel,
                        Click("logout"), PyNone, NoOutcome), "main")

ClearChat ==
    /\ MainRendered /\ run.status = "complete"
    /\ Apply(MainScript(session_state, scoreFile, CurrentUserName, CurrentModel,
                        Click("clear_chat"), PyNone, NoOutcome), "main")

\* --- Level 1 page ---
L1Rendered == page = "level1" /\ run.page = "level1" /\ run.questions

\* A text area that saves the score on every edit.
L1EditAnswer_Autosave ==
    /\ L1Rendered
    /\ \E q_key \in DOMAIN L1Widget(session_state, quizFile), text \in Texts :
          Apply(L1Script(session_state, scoreFile, quizFile,
                         [L1Widget(session_state, quizFile) EXCEPT ![q_key] = text],
                         Click("finalize"), AllDates[1], ""), "level1")

L1EditAnswer ==
    /\ L1Rendered
    /\ \E q_key \in DOMAIN L1Widget(session_state, quizFile), text \in Texts :
          Apply(L1Script(session_state, scoreFile, quizFile,
                         [L1Widget(session_state, quizFile) EXCEPT ![q_key] = text],
                         NoClick, AllDates[1], ""), "level1")

\* The help button is disabled while no API key is configured.
L1AskHelp(help_response) ==
    /\ L1Rendered
    /\ Truthy(DictGet(session_state, "current_api_key", PyNone))
    /\ \E q_key \in DOMAIN L1Widget(session_state, quizFile) :
          Apply(L1Script(session_state, scoreFile, quizFile,
                         L1Widget(session_state, quizFile),
                         HelpClick(q_key), AllDates[1], help_response), "level1")

L1Finalize(now) ==
    /\ L1Rendered
    /\ Apply(L1Script(session_state, scoreFile, quizFile,
                      L1Widget(session_state, quizFile), Click("finalize"), now, ""),
             "level1")

\* --- Level 5 page ---
L5Rendered == page = "level5" /\ run.page = "level5" /\ run.questions

L5OptionKeys(q) ==
    LET cat == L5QuizData(quizFile)
    IN  IF "halt" \in DOMAIN cat THEN {}
        ELSE Keys((IF q = "Q1_Multi" THEN cat.q1 ELSE cat.q2).dict["options"])

\* The multiselect's value after one more option is selected, or one of the
\* selected removed: option keys in the order of selection.
SelectionsFrom(selected, keys) ==
    {Append(selected, PyStr(k)) : k \in {x \in keys : PyStr(x) \notin Range(selected)}}
    \cup {SelectSeq(selected, LAMBDA y : y # selected[i]) : i \in DOMAIN selected}

L5Select ==
    /\ L5Rendered
    /\ \E selected \in SelectionsFrom(L5Selected(session_state), L5OptionKeys("Q1_Multi")) :
          Apply(L5Script(session_state, scoreFile, quizFile, selected,
                         L5Label(session_state, quizFile), NoClick, AllDates[1]), "level5")

\* One of the radio's labels is chosen.
L5Choose ==
    /\ L5Rendered
    /\ \E label \in q2_radio_options(L5QuizData(quizFile).q2) :
          Apply(L5Script(session_state, scoreFile, quizFile,
                         L5Selected(session_state), PyStr(label), NoClick, AllDates[1]),
                "level5")

L5Check(now) ==
    /\ L5Rendered
    /\ Apply(L5Script(session_state, scoreFile, quizFile, L5Selected(session_state),
                      L5Label(session_state, quizFile), Click("check"), now), "level5")

\* --- chat ---
MaxMsgs == 3
MaxChunks == 2
Prompts == {"hi"}
ChunkContents == {PyStr("He"), PyStr("llo"), PyStr(""), PyNone}
ProviderOutcomes ==
    {[fails |-> f, chunks |-> c, abort |-> a, text |-> t] :
        f \in BOOLEAN, a \in BOOLEAN, t \in {"Hello"},
        c \in UNION {[1..n -> ChunkContents] : n \in 0..MaxChunks}}
\* One provider that fails and one that answers.
FewOutcomes ==
    {[fails |-> f, chunks |-> <<PyStr("He")>>, abort |-> FALSE, text |-> "Hello"] :
        f \in BOOLEAN}

Chat(prompt, outcome) ==
    /\ MainRendered /\ run.status = "complete"
    /\ Len(session_state.dict["messages"].list) + 2 <= MaxMsgs
    /\ Apply(MainScript(session_state, scoreFile, CurrentUserName, CurrentModel,
                        NoClick, PyStr(prompt), outcome), "main")

(***************************************************************************)
(* The application, one session                                            *)
(***************************************************************************)
IdleProc == <<>>

\* The session has opened the application: the main script has run once,
\* with nothing typed.
Init ==
    /\ quizFile \in FewQuizFiles
    /\ scoreFile \in FewScoreFiles
    /\ LET out == MainScript(EmptyDict, scoreFile, "", OPENAI, NoClick, PyNone, NoOutcome)
       IN  session_state = out.ss /\ run = RunOf(out, "main")
    /\ page = "main"
    /\ proc = IdleProc
    /\ budget = MaxSteps

Next ==
    \/ \E p \in Pages : Navigate(p)
    \/ Rerender
    \/ \E user_name \in Users \cup {""} : EnterUsername(user_name)
    \/ \E selected_model \in Providers : SelectModel(selected_model)
    \/ Logout
    \/ ClearChat
    \/ \E prompt \in Prompts, outcome \in FewOutcomes : Chat(prompt, outcome)
    \/ L1EditAnswer
    \/ \E r \in HelpResponses : L1AskHelp(r)
    \/ \E now \in Dates : L1Finalize(now)
    \/ L5Select
    \/ L5Choose
    \/ \E now \in Dates : L5Check(now)

Spec == Init /\ [][Next]_vars

(***************************************************************************)
(* One quiz page, opened by a session the main page has prepared           *)
(***************************************************************************)
\* The session states the main page leaves behind, and the empty one of a
\* session that opened the quiz page first.
SessionsFromMain(file) ==
    {EmptyDict} \cup
    {MainScript(EmptyDict, file, user_name, selected_model, NoClick, PyNone, NoOutcome).ss
        : user_name \in {"", "alice"}, selected_model \in {OPENAI, GEMINI}}

InitL1 ==
    /\ quizFile \in BrokenQuizFiles \cup Level1QuizFiles
    /\ scoreFile \in ScoreFiles
    /\ \E ss \in SessionsFromMain(scoreFile) :
          LET out == L1Script(ss, scoreFile, quizFile, L1Widget(ss, quizFile),
                              NoClick, AllDates[1], "")
          IN  session_state = out.ss /\ run = RunOf(out, "level1")
    /\ page = "level1"
    /\ proc = IdleProc
    /\ budget = MaxPageSteps

NextL1 ==
    \/ Rerender
    \/ L1EditAnswer
    \/ \E r \in HelpResponses : L1AskHelp(r)
    \/ \E now \in Dates : L1Finalize(now)

SpecL1 == InitL1 /\ [][NextL1]_vars

InitL5 ==
    /\ quizFile \in BrokenQuizFiles \cup Level5QuizFiles
    /\ scoreFile \in {AbsentFile} \cup (FewScoreFiles \cap MalformedScoreFiles)
    /\ \E ss \in {EmptyDict, MainScript(EmptyDict, scoreFile, "alice", OPENAI,
                                        NoClick, PyNone, NoOutcome).ss} :
          LET out == L5Script(ss, scoreFile, quizFile, L5Selected(ss),
                              L5Label(ss, quizFile), NoClick, AllDates[1])
          IN  session_state = out.ss /\ run = RunOf(out, "level5")
    /\ page = "level5"
    /\ proc = IdleProc
    /\ budget = MaxPageSteps

NextL5 ==
    \/ Rerender
    \/ L5Select
    \/ L5Choose
    \/ \E now \in Dates : L5Check(now)

SpecL5 == InitL5 /\ [][NextL5]_vars

(***************************************************************************)
(* Two sessions saving at once: save_score step by step                    *)
(*                                                                         *)
(* Streamlit runs each session's script in its own thread, and save_score  *)
(* takes no lock: between its load, its open and its dump another          *)
(* session's steps can run.  proc[s] is session s inside save_score: the   *)
(* arguments its handler passed, where it is, and its all_scores.          *)
(***************************************************************************)
Sessions == {1, 2}

\* The calls of save_score the two handlers make for the smallest quiz.
SaveCalls ==
    LET cat1 == L1QuizData(SmallQuizFile)
        cat5 == L5QuizData(SmallQuizFile)
    IN  {L1FinalizeArgs(
            SetAnswer(InitSessionState(EmptyDict, cat1.full), LEVEL1, "Q1", PyStr(text)),
            user, cat1.data) : user \in Users, text \in Texts}
        \cup
        {L5CheckArgs(user, cat5.q1, cat5.q2, selected, key)
            : user \in Users,
              selected \in DistinctLists({PyStr(k) : k \in Keys(cat5.q1.dict["options"])}),
              key \in {""} \cup Keys(cat5.q2.dict["options"])}

InitConc ==
    /\ quizFile = SmallQuizFile
    /\ scoreFile \in ScoreFiles
    /\ session_state = EmptyDict
    /\ page = "none"
    /\ run = NoRun
    /\ budget = 0
    /\ proc \in [Sessions -> {[pc |-> "called", args |-> a, all_scores |-> PyNone]
                                : a \in SaveCalls}]

\* all_scores = load_scores() and the two assignments, in memory.
SaveLoad(s) ==
    /\ proc[s].pc = "called"
    /\ LET a == proc[s].args
           m == save_merge(load_scores(scoreFile), a.username, a.level, a.score,
                           AllDates[s], a.answer_data)
       IN  proc' = [proc EXCEPT ![s] =
                      IF Raised(m) THEN [@ EXCEPT !.pc = "raised"]
                      ELSE [@ EXCEPT !.pc = "merged", !.all_scores = m.ok]]
    /\ UNCHANGED <<scoreFile, quizFile, session_state, page, run, budget>>

\* with open(SCORE_FILE, 'w') as f
SaveOpen(s) ==
    /\ proc[s].pc = "merged"
    /\ scoreFile' = open_w(scoreFile)
    /\ proc' = [proc EXCEPT ![s].pc = "opened"]
    /\ UNCHANGED <<quizFile, session_state, page, run, budget>>

\* json.dump(all_scores, f, indent=4)
SaveDump(s) ==
    /\ proc[s].pc = "opened"
    /\ scoreFile' = json_dump(proc[s].all_scores, scoreFile)
    /\ proc' = [proc EXCEPT ![s].pc = "returned"]
    /\ UNCHANGED <<quizFile, session_state, page, run, budget>>

NextConc == \E s \in Sessions : SaveLoad(s) \/ SaveOpen(s) \/ SaveDump(s)

SpecConc == InitConc /\ [][NextConc]_vars

(***************************************************************************)
(* save_score calls that can be interrupted                                *)
(***************************************************************************)
\* The process is stopped inside "with open(SCORE_FILE, 'w') as f:" before
\* json.dump has written the text: the file stays as open() left it, or
\* with a part of the text, which is no JSON either.
SaveInterrupt(s) ==
    /\ proc[s].pc = "opened"
    /\ proc' = [proc EXCEPT ![s].pc = "interrupted"]
    /\ UNCHANGED <<scoreFile, quizFile, session_state, page, run, budget>>

NextCrash == NextConc \/ \E s \in Sessions : SaveInterrupt(s)

SpecCrash == InitConc /\ [][NextCrash]_vars

(***************************************************************************)
(* The chat on the main page, with every way a provider can answer         *)
(***************************************************************************)
\* A user has entered a name; the score file is absent.
InitChat ==
    /\ quizFile = SmallQuizFile
    /\ scoreFile = AbsentFile
    /\ \E selected_model \in Providers :
          LET out == MainScript(EmptyDict, scoreFile, "alice", selected_model,
                                NoClick, PyNone, NoOutcome)
          IN  session_state = out.ss /\ run = RunOf(out, "main")
    /\ page = "main"
    /\ proc = IdleProc
    /\ budget = MaxPageSteps

NextChat ==
    \/ Rerender
    \/ \E selected_model \in Providers : SelectModel(selected_model)
    \/ ClearChat
    \/ \E prompt \in Prompts, outcome \in ProviderOutcomes : Chat(prompt, outcome)

SpecChat == InitChat /\ [][NextChat]_vars

(***************************************************************************)
(* Properties.                                                             *)
(***************************************************************************)

\* What a later load_scores() gives for (username, level): the record, or
\* None when the store has none there.
RecordOf(file, username, level) ==
    LET all_scores == load_scores(file)
    IN  IF /\ IsDict(all_scores)
           /\ username \in Keys(all_scores)
           /\ IsDict(all_scores.dict[username])
           /\ level \in Keys(all_scores.dict[username])
           THEN all_scores.dict[username].dict[level]
           ELSE PyNone

\* C1: when a call save_score(user, level, score, answers) returns, the
\* record load_scores() then gives for (user, level) has exactly that
\* score_value and exactly those answers, whatever the file held before.
C1_RoundTrip ==
    [][\A s \in Sessions :
         (proc[s].pc = "opened" /\ proc'[s].pc = "returned") =>
            LET a == proc[s].args
                r == RecordOf(scoreFile', a.username, a.level)
            IN  /\ IsDict(r)
                /\ Keys(r) = {"score_value", "date", "answers"}
                /\ r.dict["score_value"] = PyInt(a.score)
                /\ r.dict["answers"] = a.answer_data]_vars

\* A multi-select call has returned with nothing else started, and the file
\* gives back the list of keys and the single key it was called with.
C1_Witness ==
    /\ proc[1].pc = "returned"
    /\ proc[2].pc = "called"
    /\ proc[1].args.level = LEVEL5
    /\ proc[1].args.answer_data.dict["Q1_Multi"] # PyList(<<>>)
    /\ RecordOf(scoreFile, proc[1].args.username, LEVEL5) # PyNone
    /\ RecordOf(scoreFile, proc[1].args.username, LEVEL5).dict["answers"]
          = proc[1].args.answer_data

\* C2: a save for a (user, level) that already has a record leaves exactly
\* the new call's record there: its score_value, its date and its answers,
\* and no key of the record it replaced.
C2_LastWriteWins ==
    [][(run'.saved # PyNone) =>
         LET a == run'.saved.args
             r == RecordOf(scoreFile', a.username, a.level)
         IN  /\ IsDict(r)
             /\ Keys(r) = {"score_value", "date", "answers"}
             /\ r.dict["score_value"] = PyInt(a.score)
             /\ r.dict["date"] = PyStr(run'.saved.now)
             /\ r.dict["answers"] = a.answer_data
             /\ Keys(r.dict["answers"]) = Keys(a.answer_data)]_vars

\* The file began with a record of alice for Level 1 (the one that has a
\* record of carol beside it) whose answers had a key "Q9"; alice finalized,
\* and her record now has the new date and no "Q9".
C2_Witness ==
    /\ run.saved # PyNone
    /\ run.saved.args.username = "alice"
    /\ RecordOf(scoreFile, "carol", LEVEL1) = OldRecord1
    /\ RecordOf(scoreFile, "alice", LEVEL1) # PyNone
    /\ RecordOf(scoreFile, "alice", LEVEL1).dict["date"] # PyStr(OldDate)
    /\ "Q9" \notin Keys(RecordOf(scoreFile, "alice", LEVEL1).dict["answers"])

\* The nested shape of the store: users to levels to records.
IsScoreRecord(r) ==
    /\ IsDict(r)
    /\ Keys(r) = {"score_value", "date", "answers"}
    /\ IsInt(r.dict["score_value"])
    /\ IsStr(r.dict["date"])
    /\ IsDict(r.dict["answers"])
IsStoreShape(v) ==
    /\ IsDict(v)
    /\ \A u \in Keys(v) :
          /\ IsDict(v.dict[u])
          /\ \A level \in Keys(v.dict[u]) : IsScoreRecord(v.dict[u].dict[level])
Malformed(file) ==
    \/ "absent" \in DOMAIN file
    \/ Raised(json_load(file.text))
    \/ ~IsStoreShape(json_load(file.text).ok)

\* C3: when the score file is absent, unparsable, or parses to something
\* other than the mapping of users to levels to records, load_scores
\* returns the empty mapping.
C3_LoadFailsSoft ==
    Malformed(scoreFile) => load_scores(scoreFile) = EmptyDict

\* C4: when two calls of save_score for two different users have both
\* returned, in whatever order their steps were taken, the file holds the
\* record of each.
C4_NoLostUpdate ==
    ((\A s \in Sessions : proc[s].pc = "returned")
        /\ proc[1].args.username # proc[2].args.username)
    => \A s \in Sessions :
          LET r == RecordOf(scoreFile, proc[s].args.username, proc[s].args.level)
          IN  /\ IsDict(r)
              /\ r.dict["score_value"] = PyInt(proc[s].args.score)
              /\ r.dict["answers"] = proc[s].args.answer_data

\* The quiz data as the pages read it.
QuizLevel(level) == load_quiz_data(quizFile).dict[level]

\* How many of the keys of a list are in a set, counted one by one.
RECURSIVE CountIn(_, _)
CountIn(list, set) ==
    IF list = <<>> THEN 0
    ELSE (IF Head(list) \in set THEN 1 ELSE 0) + CountIn(Tail(list), set)

\* C5: when the check handler has saved, the Q1 score is the number of
\* submitted keys that are among the question's correct answers; it is what
\* the submitted list scores with its incorrect keys left out, and the saved
\* score is that plus the Q2 score.
C5_MultiSelectScore ==
    (run.saved # PyNone /\ run.saved.args.level = LEVEL5) =>
        LET a == run.saved.args
            submitted == a.answer_data.dict["Q1_Multi"].list
            correct_answers == QuizLevel(LEVEL5).dict["Q1_Multi"].dict["correct_answers"].list
            correct == Range(correct_answers)
            hits == SelectSeq(submitted, LAMBDA k : k \in correct)
        IN  /\ a.score_q1 = CountIn(submitted, correct)
            /\ a.score_q1 = ScoreQ1(hits, correct_answers)
            /\ a.score = a.score_q1 + a.score_q2
            /\ RecordOf(scoreFile, a.username, LEVEL5).dict["score_value"] = PyInt(a.score)

\* A list with a correct key and an incorrect key was submitted and scored
\* for its correct keys only.
C5_Witness ==
    /\ run.saved # PyNone
    /\ run.saved.args.level = LEVEL5
    /\ LET a == run.saved.args
           submitted == a.answer_data.dict["Q1_Multi"].list
           correct == Range(QuizLevel(LEVEL5).dict["Q1_Multi"].dict["correct_answers"].list)
       IN  /\ \E i \in DOMAIN submitted : submitted[i] \in correct
           /\ \E i \in DOMAIN submitted : submitted[i] \notin correct
           /\ a.score_q1 >= 1
           /\ a.score_q1 < Len(submitted)

\* C6: when the check handler has saved, the Q2 score is 1 if the submitted
\* key is the question's correct_answer and 0 if it is not; with nothing
\* selected the key is the empty string and the score 0.
C6_SingleSelectScore ==
    (run.saved # PyNone /\ run.saved.args.level = LEVEL5) =>
        LET a == run.saved.args
            key == a.answer_data.dict["Q2_Single"]
            correct_answer == QuizLevel(LEVEL5).dict["Q2_Single"].dict["correct_answer"]
        IN  /\ a.score_q2 \in {0, 1}
            /\ (a.score_q2 = 1) <=> (key = correct_answer)
            /\ (key = PyStr("")) => (a.score_q2 = 0)

\* A key other than the correct one was submitted and scored 0.
C6_Witness ==
    /\ run.saved # PyNone
    /\ run.saved.args.level = LEVEL5
    /\ run.saved.args.answer_data.dict["Q2_Single"] # PyStr("")
    /\ run.saved.args.answer_data.dict["Q2_Single"]
          # QuizLevel(LEVEL5).dict["Q2_Single"].dict["correct_answer"]
    /\ run.saved.args.score_q2 = 0

\* C7: when the finalize handler of the open-ended level has saved, the
\* score_value in the file is the number of questions of the level,
\* whatever the answers.
C7_AttemptCounting ==
    (run.saved # PyNone /\ run.saved.args.level = LEVEL1) =>
        LET a == run.saved.args
            r == RecordOf(scoreFile, a.username, LEVEL1)
        IN  /\ IsDict(r)
            /\ r.dict["score_value"] = PyInt(Cardinality(Keys(QuizLevel(LEVEL1))))
            /\ r.dict["answers"] = a.answer_data

\* A level of two questions was finalized with both answers empty, and the
\* file has the score 2.
C7_Witness ==
    /\ run.saved # PyNone
    /\ run.saved.args.level = LEVEL1
    /\ Cardinality(Keys(QuizLevel(LEVEL1))) = 2
    /\ \A q \in Keys(run.saved.args.answer_data) :
          run.saved.args.answer_data.dict[q] = PyStr("")
    /\ Keys(run.saved.args.answer_data) = Keys(QuizLevel(LEVEL1))
    /\ RecordOf(scoreFile, run.saved.args.username, LEVEL1).dict["score_value"] = PyInt(2)

\* C8: once reviewed_<level> is true, no step of the session changes the
\* level's answers, and none computes a score and saves again.
C8_FinalizedAbsorbing ==
    [][Truthy(DictGet(session_state, ReviewedKey(LEVEL1), PyBool(FALSE))) =>
          /\ session_state'.dict[ANSWERS].dict[LEVEL1]
                = session_state.dict[ANSWERS].dict[LEVEL1]
          /\ run'.saved = PyNone
          /\ scoreFile' = scoreFile]_vars

\* C9: a step that changes the score file is a step of one of the two
\* finalize handlers; editing, asking for help, navigating, chatting,
\* logging in and out and re-rendering leave the file as it is.
C9_OnlyFinalizeWrites ==
    [][(scoreFile' # scoreFile) =>
          \E now \in Dates : L1Finalize(now) \/ L5Check(now)]_vars

\* The user has chatted on the main page, gone to Level 1 and typed an
\* answer, and there is still no score file.
C9_Witness ==
    /\ page = "level1"
    /\ run.questions
    /\ "messages" \in Keys(session_state)
    /\ Len(session_state.dict["messages"].list) > 1
    /\ session_state.dict[ANSWERS].dict[LEVEL1].dict["Q1"] = PyStr("x")
    /\ scoreFile = AbsentFile

\* The quiz data file does not give the level its questions: it is missing,
\* is not JSON, has no entry for the level or, for Level 5, no Q1_Multi or
\* no Q2_Single in it.
QuizFileFails(level) ==
    \/ "absent" \in DOMAIN quizFile
    \/ Raised(json_load(quizFile.text))
    \/ LET doc == json_load(quizFile.text).ok
       IN  /\ IsDict(doc)
           /\ \/ level \notin Keys(doc)
              \/ /\ level = LEVEL5
                 /\ IsDict(doc.dict[level])
                 /\ {"Q1_Multi", "Q2_Single"} \ Keys(doc.dict[level]) # {}
LevelOfPage(p) == IF p = "level1" THEN LEVEL1 ELSE LEVEL5

\* C10: a run of a quiz page whose quiz data file fails for its level stops
\* with no question and no finalize button rendered, leaves the session
\* state as it found it, and saves nothing.
C10_CatalogFailureHalts ==
    [][(page' \in {"level1", "level5"} /\ QuizFileFails(LevelOfPage(page'))) =>
          /\ run'.page = page'
          /\ run'.status = "stopped"
          /\ ~run'.questions
          /\ ~run'.review
          /\ run'.saved = PyNone
          /\ session_state' = session_state
          /\ scoreFile' = scoreFile]_vars

\* A user with a name is on the Level 5 page, the file has the level
\* without one of its two questions, and the page has stopped.
C10_Witness ==
    /\ page = "level5"
    /\ run.page = "level5"
    /\ Truthy(DictGet(session_state, "username", PyNone))
    /\ ~("absent" \in DOMAIN quizFile)
    /\ ~Raised(json_load(quizFile.text))
    /\ LEVEL5 \in Keys(json_load(quizFile.text).ok)
    /\ QuizFileFails(LEVEL5)
    /\ run.status = "stopped"
    /\ ~run.questions

\* The last message of the chat history, None when there is none.
LastMessage(ss) ==
    LET messages == DictGet(ss, "messages", PyList(<<>>)).list
    IN  IF messages = <<>> THEN PyNone ELSE messages[Len(messages)]

\* The provider call of a chat turn fails: no API key, an error when the
\* request is made, or an error while the stream is read.
ProviderFails(selected_model, outcome) ==
    \/ get_secret_key(selected_model) = ""
    \/ outcome.fails
    \/ selected_model \in {OPENAI, GROK} /\ outcome.abort

\* C11: a chat turn whose provider call fails, in any of the three ways,
\* runs to its end and leaves an assistant message that is an error string;
\* no exception ends the run.
C11_ProviderErrorsAreStrings ==
    [][\A prompt \in Prompts, outcome \in ProviderOutcomes :
          (Chat(prompt, outcome) /\ ProviderFails(CurrentModel, outcome)) =>
             /\ run'.status = "complete"
             /\ LastMessage(session_state') # PyNone
             /\ LastMessage(session_state').dict["role"] = PyStr("assistant")
             /\ StartsWithCross(LastMessage(session_state').dict["content"].str)]_vars

\* The contents of the chunks, first to last, in one string.
RECURSIVE ConcatContents(_)
ConcatContents(chunks) ==
    IF chunks = <<>> THEN ""
    ELSE (IF IsStr(Head(chunks)) THEN Head(chunks).str ELSE "")
         \o ConcatContents(Tail(chunks))

\* C12: a chat turn that reads a stream leaves an assistant message whose
\* text is the chunks received, in the order they came, whether the stream
\* ended or broke off after them.
C12_StreamedTextKept ==
    [][\A prompt \in Prompts, outcome \in ProviderOutcomes :
          (/\ Chat(prompt, outcome)
           /\ CurrentModel \in {OPENAI, GROK}
           /\ get_secret_key(CurrentModel) # ""
           /\ ~outcome.fails) =>
             LastMessage(session_state')
               = Message("assistant", ConcatContents(outcome.chunks))]_vars

\* C13: a save for (user, level) leaves the store with the users it had
\* and the user saved for, every other user's entry as it was, and in the
\* user's own entry the levels it had and the level saved, every other
\* level's record as it was.
C13_MergeFrame ==
    [][(run'.saved # PyNone) =>
         LET a == run'.saved.args
             before == load_scores(scoreFile)
             after == load_scores(scoreFile')
             own == IF a.username \in Keys(before) THEN before.dict[a.username]
                    ELSE EmptyDict
         IN  /\ IsDict(before)
             /\ IsDict(after)
             /\ Keys(after) = Keys(before) \cup {a.username}
             /\ \A u \in Keys(before) \ {a.username} : after.dict[u] = before.dict[u]
             /\ IsDict(after.dict[a.username])
             /\ Keys(after.dict[a.username]) = Keys(own) \cup {a.level}
             /\ \A l \in Keys(own) \ {a.level} :
                   after.dict[a.username].dict[l] = own.dict[l]]_vars

\* The file had the two records of bob and nothing of alice; alice has
\* finalized Level 1: her entry exists with that level only, and both of
\* bob's records are as they were.
C13_Witness ==
    /\ run.saved # PyNone
    /\ run.saved.args.username = "alice"
    /\ RecordOf(scoreFile, "bob", LEVEL1) = OldRecord1
    /\ RecordOf(scoreFile, "bob", LEVEL5) = OldRecord5
    /\ RecordOf(scoreFile, "alice", LEVEL1) # PyNone
    /\ RecordOf(scoreFile, "alice", LEVEL5) = PyNone

\* The (user, level) pairs of a store that have a record.
PairsOf(all_scores) ==
    IF ~IsDict(all_scores) THEN {}
    ELSE {p \in Keys(all_scores) \X {LEVEL1, LEVEL5} :
            IsDict(all_scores.dict[p[1]]) /\ p[2] \in Keys(all_scores.dict[p[1]])}

\* C14: when a save has been interrupted after opening the file, and no
\* other save is between its open and its dump, the file is not truncated,
\* and every record the store had when the interrupted save loaded it is
\* still there, but for the pairs another call has saved for since.
C14_InterruptedWriteKeepsRecords ==
    \A s \in Sessions :
       (proc[s].pc = "interrupted" /\ \A t \in Sessions \ {s} : proc[t].pc # "opened") =>
          /\ scoreFile # open_w(scoreFile)
          /\ \A p \in PairsOf(proc[s].all_scores) \ {<<proc[s].args.username, proc[s].args.level>>} :
                \/ \E t \in Sessions \ {s} :
                      proc[t].pc = "returned" /\ p = <<proc[t].args.username, proc[t].args.level>>
                \/ RecordOf(scoreFile, p[1], p[2]) = proc[s].all_scores.dict[p[1]].dict[p[2]]

\* C15: when a run of a quiz page shows the review of its level, the store
\* has a record of the session's current user for that level, and the score
\* the Level 5 review shows is the score_value of that record.
C15_ReviewOnlyIfPersisted ==
    (run.page \in {"level1", "level5"} /\ run.review) =>
        LET username == DictGet(session_state, "username", PyStr(""))
            r == IF IsStr(username)
                    THEN RecordOf(scoreFile, username.str, LevelOfPage(run.page))
                    ELSE PyNone
        IN  /\ IsScoreRecord(r)
            /\ (run.page = "level5") => (run.score = r.dict["score_value"])

====
